---- MODULE Spec2Model ----
(***************************************************************************)
(* Model of explorer/src/components/MixNodes/index.ts: the mapping of      *)
(* mixnode API records to grid rows (mixnodeToGridRow and                  *)
(* mixNodeResponseItemToMixnodeRowType).                                   *)
(*                                                                         *)
(* JavaScript values are tagged records.  A string is a sequence of        *)
(* one-character strings, so that Number(string), toFixed and template     *)
(* literals are computed character by character.  A finite number is an    *)
(* exact fraction num/den (den > 0); NaN and the two infinities are        *)
(* separate values.  Within the input sets below every quotient the code   *)
(* formats is far from a rounding tie that a binary double cannot          *)
(* represent (such a tie needs a divisor that is a multiple of 4000), so   *)
(* toFixed of the double and of the exact fraction agree.                  *)
(***************************************************************************)
EXTENDS Integers, Sequences, FiniteSets

VARIABLES pc, fn, arg, result

vars == <<pc, fn, arg, result>>

(***************************************************************************)
(* JavaScript values                                                       *)
(***************************************************************************)
Undefined == [t |-> "undefined"]
Str(s) == [t |-> "string", s |-> s]
Num(a, b) == [t |-> "number", num |-> a, den |-> b]
IntNum(n) == Num(n, 1)
NaN == [t |-> "number", special |-> "NaN"]
PosInfinity == [t |-> "number", special |-> "Infinity"]
NegInfinity == [t |-> "number", special |-> "-Infinity"]
Obj(fields) == [t |-> "object", fields |-> fields]
Arr(elems) == [t |-> "array", elems |-> elems]

\* Completion records: a call either returns a value or throws.
Normal(v) == [type |-> "normal", value |-> v]
Throw(e) == [type |-> "throw", value |-> e]
TypeError == "TypeError"

IsFinite(v) == v.t = "number" /\ "num" \in DOMAIN v
IsNaN(v) == v = NaN
IsInfinite(v) == v \in {PosInfinity, NegInfinity}

\* -1, 0 or 1: the sign of a number that is not NaN.
Sign(v) ==
  IF v = PosInfinity THEN 1
  ELSE IF v = NegInfinity THEN -1
  ELSE IF v.num > 0 THEN 1 ELSE IF v.num < 0 THEN -1 ELSE 0

Abs(n) == IF n < 0 THEN -n ELSE n

\* ToBoolean: undefined, "", 0 and NaN are falsy.
ToBoolean(v) ==
  CASE v.t = "undefined" -> FALSE
    [] v.t = "string" -> v.s # <<>>
    [] v.t = "number" -> ~IsNaN(v) /\ Sign(v) # 0
    [] v.t = "object" -> TRUE
    [] v.t = "array" -> TRUE

\* a || b
Or(a, b) == IF ToBoolean(a) THEN a ELSE b

\* o.k on an object; o?.k is undefined when o is undefined.
IsObject(o) == o.t = "object"
Get(o, k) == o.fields[k]
OptGet(o, k) == IF o.t = "undefined" THEN Undefined ELSE Get(o, k)

(***************************************************************************)
(* Number(string): an optionally signed run of decimal digits or the word  *)
(* Infinity; the empty string is 0; anything else is NaN.  (Whitespace,    *)
(* fractions, exponents and radix prefixes are outside the input sets.)    *)
(***************************************************************************)
Digits == <<"0", "1", "2", "3", "4", "5", "6", "7", "8", "9">>
IsDigit(c) == \E i \in DOMAIN Digits : Digits[i] = c
DigitVal(c) == (CHOOSE i \in DOMAIN Digits : Digits[i] = c) - 1
InfinityText == <<"I", "n", "f", "i", "n", "i", "t", "y">>
NaNText == <<"N", "a", "N">>

RECURSIVE DigitsValue(_)
DigitsValue(s) ==
  IF s = <<>> THEN 0
  ELSE 10 * DigitsValue(SubSeq(s, 1, Len(s) - 1)) + DigitVal(s[Len(s)])

AllDigits(s) == s # <<>> /\ \A i \in DOMAIN s : IsDigit(s[i])

StringToNumber(s) ==
  IF s = <<>> THEN IntNum(0)
  ELSE LET signed == Head(s) \in {"+", "-"}
           neg == Head(s) = "-"
           body == IF signed THEN Tail(s) ELSE s
       IN IF body = InfinityText THEN (IF neg THEN NegInfinity ELSE PosInfinity)
          ELSE IF AllDigits(body)
               THEN IntNum(IF neg THEN -DigitsValue(body) ELSE DigitsValue(body))
               ELSE NaN

ToNumber(v) ==
  CASE v.t = "undefined" -> NaN
    [] v.t = "number" -> v
    [] v.t = "string" -> StringToNumber(v.s)
    [] v.t = "object" -> NaN

(***************************************************************************)
(* Number arithmetic: +, * and /                                           *)
(***************************************************************************)
Add(a, b) ==
  IF IsNaN(a) \/ IsNaN(b) THEN NaN
  ELSE IF IsInfinite(a) THEN (IF IsInfinite(b) /\ a # b THEN NaN ELSE a)
  ELSE IF IsInfinite(b) THEN b
  ELSE Num(a.num * b.den + b.num * a.den, a.den * b.den)

Mul(a, b) ==
  IF IsNaN(a) \/ IsNaN(b) THEN NaN
  ELSE IF IsInfinite(a) \/ IsInfinite(b)
       THEN (IF Sign(a) * Sign(b) = 0 THEN NaN
             ELSE IF Sign(a) * Sign(b) > 0 THEN PosInfinity ELSE NegInfinity)
  ELSE Num(a.num * b.num, a.den * b.den)

\* A zero divisor is +0 here: a sum of two non-negative-zero numbers.
Div(a, b) ==
  IF IsNaN(a) \/ IsNaN(b) THEN NaN
  ELSE IF IsInfinite(a)
       THEN (IF IsInfinite(b) THEN NaN
             ELSE IF Sign(a) * Sign(b) < 0 THEN NegInfinity
             ELSE IF Sign(b) = 0 THEN a
             ELSE PosInfinity)
  ELSE IF IsInfinite(b) THEN IntNum(0)
  ELSE IF b.num = 0
       THEN (IF a.num = 0 THEN NaN
             ELSE IF a.num > 0 THEN PosInfinity ELSE NegInfinity)
  ELSE Num(Sign(b) * a.num * b.den, a.den * Abs(b.num))

(***************************************************************************)
(* Number to text                                                          *)
(***************************************************************************)
RECURSIVE NatToChars(_)
NatToChars(n) ==
  IF n < 10 THEN <<Digits[n + 1]>>
  ELSE NatToChars(n \div 10) \o <<Digits[(n % 10) + 1]>>

\* Number::toString, for NaN, the infinities and integral values.
NumberToString(v) ==
  CASE IsNaN(v) -> NaNText
    [] v = PosInfinity -> InfinityText
    [] v = NegInfinity -> <<"-">> \o InfinityText
    [] IsFinite(v) /\ v.num % v.den = 0 ->
         (IF v.num < 0 THEN <<"-">> ELSE <<>>) \o NatToChars(Abs(v.num) \div v.den)

\* String(v) as a template literal applies it.
ToString(v) ==
  CASE v.t = "undefined" -> <<"u", "n", "d", "e", "f", "i", "n", "e", "d">>
    [] v.t = "string" -> v.s
    [] v.t = "number" -> NumberToString(v)

\* x.toFixed(2), for |x| < 10^21: the sign is taken from x, then n is the
\* integer with n / 100 closest to |x|, the larger one on a tie.
ToFixed2(x) ==
  IF ~IsFinite(x) THEN NumberToString(x)
  ELSE LET s == IF x.num < 0 THEN <<"-">> ELSE <<>>
           n == (200 * Abs(x.num) + x.den) \div (2 * x.den)
           m == NatToChars(n)
           padded == IF Len(m) < 3
                     THEN SubSeq(<<"0", "0">>, 1, 3 - Len(m)) \o m
                     ELSE m
       IN s \o SubSeq(padded, 1, Len(padded) - 2) \o <<".">>
            \o SubSeq(padded, Len(padded) - 1, Len(padded))

(***************************************************************************)
(* mixNodeResponseItemToMixnodeRowType                                     *)
(***************************************************************************)
\* Mutant of pledge: the "|| 0" fallback is dropped.
pledgeNoFallback(item) == ToNumber(Get(Get(item, "pledge_amount"), "amount"))

pledge(item) == Or(ToNumber(Get(Get(item, "pledge_amount"), "amount")), IntNum(0))

delegations(item) == Or(ToNumber(Get(Get(item, "total_delegation"), "amount")), IntNum(0))

totalBond(item) == Add(pledge(item), delegations(item))

\* Mutant of selfPercentage: the share is taken of the delegations.
selfPercentageOfDelegations(item) ==
  ToFixed2(Div(Mul(pledge(item), IntNum(100)), delegations(item)))

\* Mutant of selfPercentage: a zero total is guarded and rendered as 0.00.
selfPercentageGuarded(item) ==
  IF totalBond(item) = IntNum(0) THEN <<"0", ".", "0", "0">>
  ELSE ToFixed2(Div(Mul(pledge(item), IntNum(100)), totalBond(item)))

selfPercentage(item) == ToFixed2(Div(Mul(pledge(item), IntNum(100)), totalBond(item)))

\* Mutant of profitPercentage: the "|| 0" fallback is dropped.
profitPercentageNoFallback(item) == Get(Get(item, "mix_node"), "profit_margin_percent")

profitPercentage(item) == Or(Get(Get(item, "mix_node"), "profit_margin_percent"), IntNum(0))

stakeSaturation(item) == Or(Get(item, "stake_saturation"), Str(<<>>))

\* Mutant of bond: the "|| 0" fallback is dropped.
bondNoFallback(item) == totalBond(item)

bond(item) == Or(totalBond(item), IntNum(0))

stake_saturation(item) ==
  IF stakeSaturation(item).t = "number"
  THEN Str(ToFixed2(Mul(stakeSaturation(item), IntNum(100))) \o <<" ", "%">>)
  ELSE Str(<<"-">>)

avg_uptime(item) == Or(Str(ToString(Get(item, "avg_uptime")) \o <<"%">>), Str(<<"-">>))

mixNodeResponseItemToMixnodeRowType(item) ==
  IF ~IsObject(Get(item, "pledge_amount")) \/ ~IsObject(Get(item, "total_delegation"))
  THEN Throw(TypeError)
  ELSE IF ~IsObject(Get(item, "mix_node"))
  THEN Throw(TypeError)
  ELSE Normal([
    id |-> Get(item, "owner"),
    status |-> Get(item, "status"),
    owner |-> Get(item, "owner"),
    identity_key |-> Or(Get(Get(item, "mix_node"), "identity_key"), Str(<<>>)),
    bond |-> bond(item),
    location |-> Or(OptGet(OptGet(item, "location"), "country_name"), Str(<<>>)),
    self_percentage |-> Str(selfPercentage(item)),
    host |-> Or(OptGet(OptGet(item, "mix_node"), "host"), Str(<<>>)),
    layer |-> Or(OptGet(item, "layer"), Str(<<>>)),
    profit_percentage |-> Str(ToString(profitPercentage(item)) \o <<"%">>),
    avg_uptime |-> avg_uptime(item),
    stake_saturation |-> stake_saturation(item)])

(***************************************************************************)
(* mixnodeToGridRow                                                        *)
(***************************************************************************)
\* Mutant of ArrayMap: each mapped row is put in front of the rows so far.
RECURSIVE ArrayMapReversed(_, _, _)
ArrayMapReversed(O, k, A) ==
  IF k > Len(O) THEN Normal(Arr(A))
  ELSE LET mapped == mixNodeResponseItemToMixnodeRowType(O[k])
       IN IF mapped.type = "throw" THEN mapped
          ELSE ArrayMapReversed(O, k + 1, <<mapped.value>> \o A)

\* Array.prototype.map with the row mapper as callback: elements k.. of O
\* are mapped in index order and appended to A; a throwing callback ends
\* the call.
RECURSIVE ArrayMap(_, _, _)
ArrayMap(O, k, A) ==
  IF k > Len(O) THEN Normal(Arr(A))
  ELSE LET mapped == mixNodeResponseItemToMixnodeRowType(O[k])
       IN IF mapped.type = "throw" THEN mapped
          ELSE ArrayMap(O, k + 1, Append(A, mapped.value))

\* Mutant of mixnodeToGridRow: the "|| []" fallback is dropped.
mixnodeToGridRowNoDefault(arrayOfMixnodes) ==
  IF arrayOfMixnodes.t # "array" THEN Throw(TypeError)
  ELSE ArrayMap(arrayOfMixnodes.elems, 1, <<>>)

mixnodeToGridRow(arrayOfMixnodes) ==
  LET receiver == Or(arrayOfMixnodes, Arr(<<>>))
  IN IF receiver.t # "array" THEN Throw(TypeError)
     ELSE ArrayMap(receiver.elems, 1, <<>>)

(***************************************************************************)
(* Inputs                                                                  *)
(***************************************************************************)
MaxLen == 2

AmountStrings ==
  { <<"6", "0", "0">>, <<"4", "0", "0">>, <<"0">>, <<"1">>, <<>>,
    <<"a", "b", "c">>, <<"-", "4", "0", "0">>,
    InfinityText, <<"-">> \o InfinityText }

Amounts == { Obj([denom |-> Str(<<"u", "n", "y", "m">>), amount |-> Str(s)]) : s \in AmountStrings }

IdentityKeys == { Undefined, Str(<<"i", "d", "k">>) }
Hosts == { Undefined, Str(<<"1", ".", "2", ".", "3", ".", "4">>) }
ProfitMargins == { Undefined, IntNum(0), IntNum(10) }

MixNodes ==
  { Undefined } \cup
  { Obj([identity_key |-> i, host |-> h, profit_margin_percent |-> p]) :
      i \in IdentityKeys, h \in Hosts, p \in ProfitMargins }

Locations ==
  { Undefined, Obj([country_name |-> Undefined]), Obj([country_name |-> Str(<<"N", "L">>)]) }

Layers == { Undefined, Str(<<"2">>) }
Uptimes == { Undefined, IntNum(99) }

StakeSaturations ==
  { Undefined, IntNum(0), Num(8552, 10000), Num(85526, 100000), Str(<<"n", "/", "a">>) }

Item(m, p, d, l, y, u, s) ==
  Obj([owner |-> Str(<<"n", "1">>), status |-> Str(<<"a", "c", "t", "i", "v", "e">>),
       mix_node |-> m, pledge_amount |-> p, total_delegation |-> d,
       location |-> l, layer |-> y, avg_uptime |-> u, stake_saturation |-> s])

Items ==
  { Item(m, p, d, l, y, u, s) :
      m \in MixNodes, p \in Amounts, d \in Amounts, l \in Locations,
      y \in Layers, u \in Uptimes, s \in StakeSaturations }

Amount(s) == Obj([denom |-> Str(<<"u", "n", "y", "m">>), amount |-> Str(s)])
FullNode == Obj([identity_key |-> Str(<<"i", "d", "k">>),
                 host |-> Str(<<"1", ".", "2", ".", "3", ".", "4">>),
                 profit_margin_percent |-> IntNum(10)])

\* The records the grid inputs are built from: two well-formed records
\* that differ, one with defaults everywhere, one without mix_node.
GridItems ==
  { Item(FullNode, Amount(<<"6", "0", "0">>), Amount(<<"4", "0", "0">>),
         Obj([country_name |-> Str(<<"N", "L">>)]), Str(<<"2">>), IntNum(99), Num(8552, 10000)),
    Item(FullNode, Amount(<<"4", "0", "0">>), Amount(<<"6", "0", "0">>),
         Undefined, Str(<<"2">>), IntNum(99), Undefined),
    Item(Obj([identity_key |-> Undefined, host |-> Undefined, profit_margin_percent |-> Undefined]),
         Amount(<<"0">>), Amount(<<"0">>), Undefined, Undefined, Undefined, IntNum(0)),
    Item(Undefined, Amount(<<"6", "0", "0">>), Amount(<<"4", "0", "0">>),
         Undefined, Str(<<"2">>), IntNum(99), Undefined) }

SeqsUpTo(S, n) == UNION { [1..k -> S] : k \in 0..n }

GridInputs == { Undefined } \cup { Arr(a) : a \in SeqsUpTo(GridItems, MaxLen) }

(***************************************************************************)
(* The calls                                                               *)
(***************************************************************************)
Pending == [type |-> "pending"]

Init ==
  /\ pc = "called"
  /\ result = Pending
  /\ \/ fn = "mixNodeResponseItemToMixnodeRowType" /\ arg \in Items
     \/ fn = "mixnodeToGridRow" /\ arg \in GridInputs

RowCall ==
  /\ pc = "called"
  /\ fn = "mixNodeResponseItemToMixnodeRowType"
  /\ result' = mixNodeResponseItemToMixnodeRowType(arg)
  /\ pc' = "done"
  /\ UNCHANGED <<fn, arg>>

GridCall ==
  /\ pc = "called"
  /\ fn = "mixnodeToGridRow"
  /\ result' = mixnodeToGridRow(arg)
  /\ pc' = "done"
  /\ UNCHANGED <<fn, arg>>

Next == RowCall \/ GridCall

Spec == Init /\ [][Next]_vars

(***************************************************************************)
(* Properties                                                              *)
(***************************************************************************)
RowFn == "mixNodeResponseItemToMixnodeRowType"
GridFn == "mixnodeToGridRow"

RowCalled == pc = "done" /\ fn = RowFn
GridCalled == pc = "done" /\ fn = GridFn
RowProduced == RowCalled /\ result.type = "normal"
row == result.value

AmountText(field) == Get(Get(arg, field), "amount").s

\* The numeric value of an amount string, a string that does not parse to
\* a number counting as 0.
AmountValue(field) ==
  LET n == StringToNumber(AmountText(field))
  IN IF IsNaN(n) THEN IntNum(0) ELSE n

AmountSum == Add(AmountValue("pledge_amount"), AmountValue("total_delegation"))

Text600 == <<"6", "0", "0">>
Text400 == <<"4", "0", "0">>

\* C1: mixnodeToGridRow maps record by record: when every record of the
\* input maps to a row, the output has the input's length and output[i] is
\* the row mixNodeResponseItemToMixnodeRowType gives for input[i] alone.
C1_ElementwiseMap ==
  (/\ GridCalled
   /\ arg.t = "array"
   /\ \A i \in DOMAIN arg.elems :
        mixNodeResponseItemToMixnodeRowType(arg.elems[i]).type = "normal")
  => /\ result.type = "normal"
     /\ result.value.t = "array"
     /\ Len(result.value.elems) = Len(arg.elems)
     /\ \A i \in DOMAIN arg.elems :
          result.value.elems[i] = mixNodeResponseItemToMixnodeRowType(arg.elems[i]).value

C1_Witness ==
  /\ GridCalled
  /\ arg.t = "array"
  /\ Len(arg.elems) = 2
  /\ result.type = "normal"
  /\ Len(result.value.elems) = 2
  /\ result.value.elems[1] # result.value.elems[2]

\* C2: an absent input gives the empty sequence, and whatever
\* mixnodeToGridRow returns is a sequence.
C2_AbsentGivesEmpty ==
  GridCalled =>
    /\ arg = Undefined => result = Normal(Arr(<<>>))
    /\ result.type = "normal" => result.value.t = "array"

C2_Witness == GridCalled /\ arg = Undefined /\ result = Normal(Arr(<<>>))

\* C3 (as claimed): mixNodeResponseItemToMixnodeRowType never fails, whatever
\* optional field or nested object is missing and whatever the amount
\* strings contain.
C3_NeverFails == RowCalled => result.type = "normal"

\* C4 (as claimed): bond is the numeric value of the pledge amount plus the
\* numeric value of the delegation amount, an unparsable amount counting as 0.
C4_BondIsSum == RowProduced => row.bond = AmountSum

\* C4 (amended): bond is that sum whenever the sum is a number; when the two
\* amounts are opposite infinities the sum is NaN and bond is 0.
C4_BondIsSumOrZero ==
  RowProduced =>
    /\ row.bond = (IF IsNaN(AmountSum) THEN IntNum(0) ELSE AmountSum)
    /\ (AmountText("pledge_amount") = Text600 /\ AmountText("total_delegation") = Text400)
         => row.bond = IntNum(1000)
    /\ (AmountText("pledge_amount") = <<"0">> /\ AmountText("total_delegation") = <<"0">>)
         => row.bond = IntNum(0)

C4_Witness ==
  /\ RowProduced
  /\ AmountText("pledge_amount") = Text600
  /\ AmountText("total_delegation") = Text400
  /\ row.bond = IntNum(1000)

\* C5 (as claimed): a sum that is not finite is emitted as 0, so bond is
\* finite in every row.
C5_BondFinite ==
  RowProduced =>
    /\ ~IsFinite(AmountSum) => row.bond = IntNum(0)
    /\ IsFinite(row.bond)

\* C5 (amended): a NaN sum is emitted as 0 and an infinite sum is emitted
\* as it is, so bond is never NaN.
C5_BondNeverNaN ==
  RowProduced =>
    /\ IsNaN(AmountSum) => row.bond = IntNum(0)
    /\ IsInfinite(AmountSum) => row.bond = AmountSum
    /\ ~IsNaN(row.bond)

C5_Witness ==
  /\ RowProduced
  /\ AmountText("pledge_amount") = InfinityText
  /\ AmountText("total_delegation") = <<"-">> \o InfinityText
  /\ row.bond = IntNum(0)

\* A text of digits, a point and exactly two more digits, with an optional
\* leading minus sign (so no "%" ends it).
Unsigned(s) == IF s # <<>> /\ Head(s) = "-" THEN Tail(s) ELSE s

IsTwoDecimalText(s) ==
  LET u == Unsigned(s)
  IN /\ Len(u) >= 4
     /\ u[Len(u) - 2] = "."
     /\ \A i \in DOMAIN u : i # Len(u) - 2 => IsDigit(u[i])
     /\ Len(u) > 4 => u[1] # "0"

\* The number of hundredths a two-decimal text stands for, without its sign.
Hundredths(s) ==
  LET u == Unsigned(s)
  IN DigitsValue(SubSeq(u, 1, Len(u) - 3) \o SubSeq(u, Len(u) - 1, Len(u)))

\* n hundredths is the two-decimal rounding of |p * 100 / t| for integers p
\* and t # 0: within half a hundredth, the larger candidate on a tie.
IsRoundedShare(n, p, t) ==
  LET exact == 10000 * Abs(p)
      shown == n * Abs(t)
  IN /\ 2 * Abs(shown - exact) <= Abs(t)
     /\ 2 * Abs(shown - exact) = Abs(t) => shown > exact

\* s is pledge * 100 / total rendered with two decimals.
IsShareText(s, p, t) ==
  /\ IsTwoDecimalText(s)
  /\ IsRoundedShare(Hundredths(s), p, t)
  /\ (Head(s) = "-") <=> ((p < 0 /\ t > 0) \/ (p > 0 /\ t < 0))

SelfPercentageText == row.self_percentage.s

\* C6 (as claimed): self_percentage is pledge * 100 / totalBond rendered with
\* exactly two decimal digits and no "%".
C6_SelfPercentageTwoDecimals ==
  RowProduced =>
    /\ row.self_percentage.t = "string"
    /\ IsTwoDecimalText(SelfPercentageText)
    /\ (IsFinite(AmountValue("pledge_amount")) /\ IsFinite(AmountSum) /\ AmountSum.num # 0)
         => IsShareText(SelfPercentageText, AmountValue("pledge_amount").num, AmountSum.num)

\* C6 (amended): that holds whenever the quotient is a finite number, that is
\* when the pledge is finite and totalBond is not 0 (an infinite totalBond
\* giving 0.00); otherwise self_percentage is NaN, Infinity or -Infinity.
C6_SelfPercentageWhenFinite ==
  RowProduced =>
    LET p == AmountValue("pledge_amount")
        t == AmountSum
    IN /\ row.self_percentage.t = "string"
       /\ IF IsFinite(p) /\ IsFinite(t) /\ t.num # 0
          THEN IsShareText(SelfPercentageText, p.num, t.num)
          ELSE IF IsFinite(p) /\ IsInfinite(t)
          THEN SelfPercentageText = <<"0", ".", "0", "0">>
          ELSE SelfPercentageText \in {NaNText, InfinityText, <<"-">> \o InfinityText}
       /\ (AmountText("pledge_amount") = Text600 /\ AmountText("total_delegation") = Text400)
            => SelfPercentageText = <<"6", "0", ".", "0", "0">>
       /\ (AmountText("pledge_amount") = <<"a", "b", "c">> /\ AmountText("total_delegation") = Text400)
            => SelfPercentageText = <<"0", ".", "0", "0">>

C6_Witness ==
  /\ RowProduced
  /\ AmountText("pledge_amount") = Text600
  /\ AmountText("total_delegation") = Text400
  /\ SelfPercentageText = <<"6", "0", ".", "0", "0">>

\* C7 (as claimed): stake_saturation is the raw value times 100 with two
\* decimals and " %" whenever the raw value is a number, 0 included, and
\* "-" exactly when the raw value is absent or not a number.
C7_StakeSaturationNumeric ==
  RowProduced =>
    LET raw == Get(arg, "stake_saturation")
    IN /\ raw.t = "number"
            => row.stake_saturation = Str(ToFixed2(Mul(raw, IntNum(100))) \o <<" ", "%">>)
       /\ row.stake_saturation = Str(<<"-">>) <=> raw.t # "number"

\* The value a defaulted text field is claimed to take.
OrEmpty(v) == IF v = Undefined THEN Str(<<>>) ELSE v

\* C8 (as claimed): location, identity_key, host and layer are "" when the
\* field or the nested object holding it is missing, and the input value
\* otherwise.
C8_MissingGivesEmpty ==
  RowCalled =>
    /\ result.type = "normal"
    /\ row.location = OrEmpty(OptGet(Get(arg, "location"), "country_name"))
    /\ row.identity_key = OrEmpty(OptGet(Get(arg, "mix_node"), "identity_key"))
    /\ row.host = OrEmpty(OptGet(Get(arg, "mix_node"), "host"))
    /\ row.layer = OrEmpty(Get(arg, "layer"))

\* C9: in a produced row profit_percentage is the profit margin followed by
\* "%", with 0 for an absent profit margin.
C9_ProfitPercentage ==
  RowProduced =>
    LET margin == Get(Get(arg, "mix_node"), "profit_margin_percent")
    IN row.profit_percentage =
         Str((IF margin = Undefined THEN <<"0">> ELSE NumberToString(margin)) \o <<"%">>)

C9_Witness ==
  /\ RowProduced
  /\ Get(Get(arg, "mix_node"), "profit_margin_percent") = Undefined
  /\ row.profit_percentage = Str(<<"0", "%">>)

\* C10 (as claimed): whenever the amounts sum to 0, self_percentage is "NaN".
C10_ZeroBondGivesNaN ==
  (RowProduced /\ AmountSum = IntNum(0)) => SelfPercentageText = NaNText

\* C10 (amended): whenever the amounts sum to 0, the division raises nothing
\* (the call fails only for a missing nested object) and self_percentage is
\* "NaN" when the pledge is 0, "Infinity" when it is positive and
\* "-Infinity" when it is negative.
C10_ZeroBondText ==
  (RowCalled /\ AmountSum = IntNum(0)) =>
    /\ result.type = "throw" => ~IsObject(Get(arg, "mix_node"))
    /\ result.type = "normal" =>
         SelfPercentageText =
           (IF AmountValue("pledge_amount").num = 0 THEN NaNText
            ELSE IF AmountValue("pledge_amount").num > 0 THEN InfinityText
            ELSE <<"-">> \o InfinityText)

C10_Witness ==
  /\ RowProduced
  /\ AmountText("pledge_amount") = <<"0">>
  /\ AmountText("total_delegation") = <<"0">>
  /\ SelfPercentageText = NaNText

====
